---------------------------- MODULE Spec2Model ----------------------------
(***************************************************************************)
(* Model of tools/dashboard-app/fetch_jira_data.py: one run of the script  *)
(* is module import (token check), main() up to the key check, the search  *)
(* POST inside JiraDataFetcher.get_issues_in_batch, the two time-service   *)
(* GETs of the lastUpdated conditional expression, and the file write.     *)
(* The script is run repeatedly against the same public/jira-data.json.    *)
(*                                                                         *)
(* Strings that the code inspects character by character (the issue type   *)
(* name, lower-cased at line 70) are sequences of one-character strings.   *)
(* Ticket keys, summaries and status names are opaque strings, as in the   *)
(* tracker's responses; json.dump of a dict with string keys and string or *)
(* boolean values is lossless, so the file is modelled by the document it  *)
(* holds.                                                                  *)
(***************************************************************************)
EXTENDS Integers, Sequences, FiniteSets, TLC

\* Bounds of the model.
MaxIssues == 2      \* longest issues array of a search response
MaxRuns == 2        \* number of consecutive runs of the script

\* Python's None (os.getenv of an unset variable, JSON null).
None == "<None>"

(***************************************************************************)
(* Inputs: the environment and the two HTTP services.                      *)
(***************************************************************************)

\* Values of VITE_JIRA_TOKEN in the process environment (None: unset).
TokenValues == {None, "", " ", "secret"}

\* Issue type names, as character sequences.
Epic == <<"E", "p", "i", "c">>
epic == <<"e", "p", "i", "c">>
EPIC == <<"E", "P", "I", "C">>
Bug == <<"B", "u", "g">>
EpicStory == <<"E", "p", "i", "c", " ", "S", "t", "o", "r", "y">>

\* An issue object of the search response body.
Issue(k, s, t, st) ==
    [key |-> k, fields |-> [summary |-> s, issuetype |-> [name |-> t], status |-> [name |-> st]]]

\* Issue objects the tracker may return; the last one lacks its "key" member.
ResponseIssues ==
    { Issue("DEV-3872", "S1", Bug, "Open"),
      Issue("DEV-3872", "S2", Epic, "Done"),
      Issue("DEV-4320", "S1", EPIC, "Open"),
      Issue("DEV-4320", "S2", EpicStory, "Done"),
      Issue("DEV-4321", "S3", epic, "Open"),
      [self |-> "rest/api/3/issue/10001",
       fields |-> [summary |-> "S4", issuetype |-> [name |-> Bug], status |-> [name |-> "Open"]]] }

IssueArrays == UNION { [1..n -> ResponseIssues] : n \in 0..MaxIssues }

\* What requests.post can come back with: a raised ConnectionError, or a
\* response with a status code and a body that is a JSON object with an
\* issues array, a JSON object without one, or not JSON at all.
SearchStatusCodes == {200, 300, 404, 503}

SearchResponses ==
    { [error |-> TRUE, status_code |-> 0, body |-> "none", issues |-> <<>>] }
    \cup { [error |-> FALSE, status_code |-> c, body |-> "json_issues", issues |-> a] :
             c \in SearchStatusCodes, a \in IssueArrays }
    \cup { [error |-> FALSE, status_code |-> c, body |-> b, issues |-> <<>>] :
             c \in SearchStatusCodes, b \in {"json_no_issues", "not_json"} }

NoResponse == [error |-> FALSE, status_code |-> 0, body |-> "none", issues |-> <<>>]

\* What requests.get on the time service can come back with.
TimeResponses ==
    { [error |-> TRUE, status_code |-> 0, body |-> "none", datetime |-> None] }
    \cup { [error |-> FALSE, status_code |-> c, body |-> "json_datetime",
            datetime |-> "2026-01-01T00:00:00+00:00"] : c \in {200, 503} }
    \cup { [error |-> FALSE, status_code |-> c, body |-> b, datetime |-> None] :
             c \in {200, 503}, b \in {"json_no_datetime", "not_json"} }

(***************************************************************************)
(* Pure parts of the code.                                                 *)
(***************************************************************************)

\* A token check that only notices an unset variable.
Falsy_unset_only(v) == v = None

\* "not v" for an optional string (line 24).
Falsy(v) == v = None \/ v = ""

\* "not l" for a list (lines 41, 123, 133).
empty_list(l) == Len(l) = 0

UpperCase == <<"A","B","C","D","E","F","G","H","I","J","K","L","M",
               "N","O","P","Q","R","S","T","U","V","W","X","Y","Z">>
LowerCase == <<"a","b","c","d","e","f","g","h","i","j","k","l","m",
               "n","o","p","q","r","s","t","u","v","w","x","y","z">>

\* str.lower() on one character and on a string.
lower_char(c) ==
    IF \E i \in DOMAIN UpperCase : UpperCase[i] = c
    THEN LowerCase[CHOOSE i \in DOMAIN UpperCase : UpperCase[i] = c]
    ELSE c

str_lower(s) == [i \in DOMAIN s |-> lower_char(s[i])]

\* The comparison without the lower-casing.
is_epic_case_sensitive(name) == name = <<"e", "p", "i", "c">>

\* 'epic' as compared at line 70.
is_epic(name) == str_lower(name) = <<"e", "p", "i", "c">>

\* The record built for one issue object (lines 65-71).
issue_record(issue) ==
    [key |-> issue.key,
     summary |-> issue.fields.summary,
     issueType |-> issue.fields.issuetype.name,
     status |-> issue.fields.status.name,
     isEpic |-> is_epic(issue.fields.issuetype.name)]

\* issue['key'] raises KeyError on an issue object without that member.
has_key(issue) == "key" \in DOMAIN issue

\* The loop prepending instead of appending.
map_issues_prepend(arr) == [j \in DOMAIN arr |-> issue_record(arr[Len(arr) + 1 - j])]

\* The loop of lines 62-71 over a well-formed issues array.
map_issues(arr) == [j \in DOMAIN arr |-> issue_record(arr[j])]

\* A status check that only rejects server errors.
raise_for_status_5xx(resp) == resp.status_code >= 500 /\ resp.status_code < 600

\* Response.raise_for_status() raises HTTPError for 4xx and 5xx statuses.
raise_for_status(resp) == resp.status_code >= 400 /\ resp.status_code < 600

\* Response.ok: raise_for_status() does not raise.
ok(resp) == ~(resp.status_code >= 400 /\ resp.status_code < 600)

\* The default key list (lines 100-106); the cache scan of lines 88-96 does
\* nothing, so this is what get_ticket_keys_from_github_cache returns.
default_tickets ==
    << "DEV-3872", "DEV-4320", "DEV-4321", "DEV-4065",
       "DEV-4521", "DEV-4498", "DEV-4233", "DEV-4372", "DEV-4364" >>

get_ticket_keys_from_github_cache == default_tickets

\* get_issues_in_batch (lines 39-81) on a key list, given what the POST comes
\* back with.  json_error_caught: whether the installed requests raises a
\* JSONDecodeError that is a RequestException (2.27 and later) or a plain
\* ValueError, which the except clause of line 76 does not catch.
\* Result: posted (the request was issued), raised (the exception that
\* escapes, "" when the call returns) and issues (the list returned).
get_issues_in_batch(issue_keys, resp, json_error_caught) ==
    IF empty_list(issue_keys)
    THEN [posted |-> FALSE, raised |-> "", issues |-> <<>>]
    ELSE IF resp.error
    THEN [posted |-> TRUE, raised |-> "", issues |-> <<>>]
    ELSE IF raise_for_status(resp)
    THEN [posted |-> TRUE, raised |-> "", issues |-> <<>>]
    ELSE IF resp.body = "not_json"
    THEN [posted |-> TRUE,
          raised |-> IF json_error_caught THEN "" ELSE "JSONDecodeError",
          issues |-> <<>>]
    ELSE IF resp.body = "json_no_issues"
    THEN [posted |-> TRUE, raised |-> "", issues |-> <<>>]
    ELSE IF \E j \in DOMAIN resp.issues : ~has_key(resp.issues[j])
    THEN [posted |-> TRUE, raised |-> "KeyError", issues |-> <<>>]
    ELSE [posted |-> TRUE, raised |-> "", issues |-> map_issues(resp.issues)]

\* The comprehension keyed by the wrong member.
tickets_by_summary(recs) ==
    [k \in {recs[j].summary : j \in DOMAIN recs} |->
        recs[CHOOSE j \in DOMAIN recs :
                /\ recs[j].summary = k
                /\ \A i \in DOMAIN recs : recs[i].summary = k => i <= j]]

\* A mapping that keeps the first record of a key (dict.setdefault).
tickets_first_wins(recs) ==
    [k \in {recs[j].key : j \in DOMAIN recs} |->
        recs[CHOOSE j \in DOMAIN recs :
                /\ recs[j].key = k
                /\ \A i \in DOMAIN recs : recs[i].key = k => j <= i]]

\* The dict comprehension of line 139: a later record replaces an earlier
\* one with the same key.
tickets_of(recs) ==
    [k \in {recs[j].key : j \in DOMAIN recs} |->
        recs[CHOOSE j \in DOMAIN recs :
                /\ recs[j].key = k
                /\ \A i \in DOMAIN recs : recs[i].key = k => i <= j]]

EmptyDict == [k \in {} |-> None]

\* The output file when it does not exist.
NoFile == [exists |-> FALSE, tickets |-> EmptyDict, lastUpdated |-> None]

\* A write that updates the tickets already in the file.
written_document_merged(old, data) ==
    [exists |-> TRUE,
     tickets |-> [k \in DOMAIN old.tickets \cup DOMAIN data.tickets |->
                    IF k \in DOMAIN data.tickets THEN data.tickets[k] ELSE old.tickets[k]],
     lastUpdated |-> data.lastUpdated]

\* The file after lines 146-147: open(..., 'w') truncates what was there and
\* json.dump writes the whole of output_data.
written_document(old, data) ==
    [exists |-> TRUE, tickets |-> data.tickets, lastUpdated |-> data.lastUpdated]

(***************************************************************************)
(* State.                                                                  *)
(***************************************************************************)
VARIABLES
    pc,              \* where the run is: "import", "main", "fetch", "prepare",
                     \* "last_updated", "save", "exited"
    JIRA_API_TOKEN,  \* module global read at import (line 22)
    public_dir,      \* whether the public/ directory exists
    ticket_keys,     \* main's ticket_keys
    response,        \* what the search POST came back with
    issues,          \* main's issues
    time_responses,  \* what the time-service GETs of this run came back with
    output_data,     \* main's output_data
    file,            \* public/jira-data.json
    file_before,     \* public/jira-data.json when the run started
    net,             \* the I/O the run has issued, in order
    saved_count,     \* the count printed at line 149
    uncaught,        \* the exception that ended the run, "" if none
    exit_status,     \* the exit status, meaningful once pc = "exited"
    runs             \* runs started so far

vars == << pc, JIRA_API_TOKEN, public_dir, ticket_keys, response, issues,
           time_responses, output_data, file, file_before, net, saved_count,
           uncaught, exit_status, runs >>

NoOutput == [tickets |-> EmptyDict, lastUpdated |-> None]

Init ==
    /\ pc = "import"
    /\ JIRA_API_TOKEN = None
    /\ public_dir = FALSE
    /\ ticket_keys = <<>>
    /\ response = NoResponse
    /\ issues = <<>>
    /\ time_responses = <<>>
    /\ output_data = NoOutput
    /\ file = NoFile
    /\ file_before = NoFile
    /\ net = <<>>
    /\ saved_count = 0
    /\ uncaught = ""
    /\ exit_status = 0
    /\ runs = 1

\* sys.exit(code), or an exception that reaches the top level (status 1).
Exit(code, exc) ==
    /\ pc' = "exited"
    /\ exit_status' = code
    /\ uncaught' = exc

\* Module import, lines 20-27: the token is read from the environment and the
\* process exits with status 1 when it is unset or empty.
module_import ==
    /\ pc = "import"
    /\ \E tok \in TokenValues :
         /\ JIRA_API_TOKEN' = tok
         /\ IF Falsy(tok)
            THEN Exit(1, "")
            ELSE pc' = "main" /\ UNCHANGED << exit_status, uncaught >>
    /\ UNCHANGED << public_dir, ticket_keys, response, issues, time_responses,
                    output_data, file, file_before, net, saved_count, runs >>

\* main, lines 108-125: the directory is created, the keys are resolved and
\* the run exits with status 1 when there are none.
main_resolve_keys ==
    /\ pc = "main"
    /\ public_dir' = TRUE
    /\ ticket_keys' = get_ticket_keys_from_github_cache
    /\ IF empty_list(ticket_keys')
       THEN Exit(1, "")
       ELSE pc' = "fetch" /\ UNCHANGED << exit_status, uncaught >>
    /\ UNCHANGED << JIRA_API_TOKEN, response, issues, time_responses,
                    output_data, file, file_before, net, saved_count, runs >>

\* main, lines 127-135: the fetch and the check of its result.
main_fetch ==
    /\ pc = "fetch"
    /\ \E resp \in SearchResponses, json_error_caught \in BOOLEAN :
         LET r == get_issues_in_batch(ticket_keys, resp, json_error_caught) IN
           /\ response' = IF r.posted THEN resp ELSE NoResponse
           /\ net' = IF r.posted THEN Append(net, "POST search") ELSE net
           /\ issues' = r.issues
           /\ IF r.raised # ""
              THEN Exit(1, r.raised)
              ELSE IF empty_list(r.issues)
              THEN Exit(1, "")
              ELSE pc' = "prepare" /\ UNCHANGED << exit_status, uncaught >>
    /\ UNCHANGED << JIRA_API_TOKEN, public_dir, ticket_keys, time_responses,
                    output_data, file, file_before, saved_count, runs >>

\* main, lines 138-142, up to the condition of the conditional expression:
\* the GET whose .ok is tested (line 141).  A response that is not ok makes
\* lastUpdated None; a connection error is not caught.
main_time_ok ==
    /\ pc = "prepare"
    /\ \E t \in TimeResponses :
         /\ net' = Append(net, "GET time")
         /\ time_responses' = Append(time_responses, t)
         /\ IF t.error
            THEN Exit(1, "ConnectionError") /\ UNCHANGED output_data
            ELSE IF ok(t)
            THEN /\ pc' = "last_updated"
                 /\ UNCHANGED << output_data, exit_status, uncaught >>
            ELSE /\ output_data' = [tickets |-> tickets_of(issues), lastUpdated |-> None]
                 /\ pc' = "save"
                 /\ UNCHANGED << exit_status, uncaught >>
    /\ UNCHANGED << JIRA_API_TOKEN, public_dir, ticket_keys, response, issues,
                    file, file_before, saved_count, runs >>

\* main, line 140: the second GET, whose body gives lastUpdated.  Its status
\* is not looked at; a connection error, a body that is not JSON and a body
\* without "datetime" are not caught.
main_time_json ==
    /\ pc = "last_updated"
    /\ \E t \in TimeResponses :
         /\ net' = Append(net, "GET time")
         /\ time_responses' = Append(time_responses, t)
         /\ IF t.error
            THEN Exit(1, "ConnectionError") /\ UNCHANGED output_data
            ELSE IF t.body = "not_json"
            THEN Exit(1, "JSONDecodeError") /\ UNCHANGED output_data
            ELSE IF t.body = "json_no_datetime"
            THEN Exit(1, "KeyError") /\ UNCHANGED output_data
            ELSE /\ output_data' = [tickets |-> tickets_of(issues), lastUpdated |-> t.datetime]
                 /\ pc' = "save"
                 /\ UNCHANGED << exit_status, uncaught >>
    /\ UNCHANGED << JIRA_API_TOKEN, public_dir, ticket_keys, response, issues,
                    file, file_before, saved_count, runs >>

\* main, lines 145-152: the file is opened for writing (truncated) and the
\* whole document is dumped into it; main returns and the status is 0.
main_save ==
    /\ pc = "save"
    /\ file' = written_document(file, output_data)
    /\ net' = Append(net, "WRITE file")
    /\ saved_count' = Len(issues)
    /\ Exit(0, "")
    /\ UNCHANGED << JIRA_API_TOKEN, public_dir, ticket_keys, response, issues,
                    time_responses, output_data, file_before, runs >>

\* The script is started again: a new process, the same file system.
next_run ==
    /\ pc = "exited"
    /\ runs < MaxRuns
    /\ runs' = runs + 1
    /\ pc' = "import"
    /\ JIRA_API_TOKEN' = None
    /\ ticket_keys' = <<>>
    /\ response' = NoResponse
    /\ issues' = <<>>
    /\ time_responses' = <<>>
    /\ output_data' = NoOutput
    /\ file_before' = file
    /\ net' = <<>>
    /\ saved_count' = 0
    /\ uncaught' = ""
    /\ exit_status' = 0
    /\ UNCHANGED << public_dir, file >>

Next ==
    \/ module_import
    \/ main_resolve_keys
    \/ main_fetch
    \/ main_time_ok
    \/ main_time_json
    \/ main_save
    \/ next_run

Spec == Init /\ [][Next]_vars

TypeOK ==
    /\ pc \in {"import", "main", "fetch", "prepare", "last_updated", "save", "exited"}
    /\ JIRA_API_TOKEN \in TokenValues
    /\ exit_status \in {0, 1}
    /\ runs \in 1..MaxRuns

(***************************************************************************)
(* Vocabulary of the properties.                                           *)
(***************************************************************************)

Count(ev) == Cardinality({i \in DOMAIN net : net[i] = ev})

Posted == Count("POST search") >= 1

Wrote == Count("WRITE file") >= 1

Is2xx(code) == code >= 200 /\ code <= 299

\* A time-service call that failed: a connection error, a response that is
\* not 2xx, or a body from which no datetime can be read.
TimeCallFailed(t) == t.error \/ ~Is2xx(t.status_code) \/ t.body # "json_datetime"

IssueKeys == {issues[j].key : j \in DOMAIN issues}

\* s is the word "epic" in some mix of upper and lower case.
EpicIgnoringCase(s) ==
    /\ Len(s) = 4
    /\ s[1] \in {"e", "E"}
    /\ s[2] \in {"p", "P"}
    /\ s[3] \in {"i", "I"}
    /\ s[4] \in {"c", "C"}

(***************************************************************************)
(* C1.                                                                     *)
(***************************************************************************)

\* C1: when the search gave at least one issue and a time-service call of the
\* run failed (connection error, non-OK response or unparsable body), the
\* run ends with status 0 and has written a document whose lastUpdated is
\* null and whose tickets hold the fetched issues.
C1_TimeFailureGivesNull ==
    ( /\ pc = "exited"
      /\ Len(issues) >= 1
      /\ \E i \in DOMAIN time_responses : TimeCallFailed(time_responses[i]) )
    => /\ exit_status = 0
       /\ uncaught = ""
       /\ Wrote
       /\ file.lastUpdated = None
       /\ DOMAIN file.tickets = IssueKeys

(***************************************************************************)
(* C2.                                                                     *)
(***************************************************************************)

\* The search request failed in the sense of the run: nothing was fetched,
\* nothing escaped, the run is over with status 1 and the file is untouched.
FetchFailedQuietly ==
    /\ issues = <<>>
    /\ uncaught = ""
    /\ pc = "exited"
    /\ exit_status = 1
    /\ ~Wrote
    /\ file = file_before

C3_FatalInputBeforeNetwork ==
    ( \/ (pc # "import" /\ (JIRA_API_TOKEN = None \/ JIRA_API_TOKEN = ""))
      \/ (pc \notin {"import", "main"} /\ Len(ticket_keys) = 0) )
    => /\ pc = "exited"
       /\ exit_status = 1
       /\ net = <<>>
       /\ response = NoResponse
       /\ file = file_before

\* A second run that found the token empty, after a run that wrote the file.
C3_Witness ==
    /\ pc = "exited"
    /\ JIRA_API_TOKEN = ""
    /\ exit_status = 1
    /\ net = <<>>
    /\ file.exists

(***************************************************************************)
(* C4.                                                                     *)
(***************************************************************************)

\* C4: no run issues more than one search request or more than one
\* time-service request, and a run that wrote the file issued exactly one
\* search request, then at most one time-service request, then one write.
C4_OneRequestOfEachKind ==
    /\ Count("POST search") <= 1
    /\ Count("GET time") <= 1
    /\ Wrote =>
         /\ Count("POST search") = 1
         /\ Count("WRITE file") = 1
         /\ net[1] = "POST search"
         /\ net[Len(net)] = "WRITE file"

(***************************************************************************)
(* C5.                                                                     *)
(***************************************************************************)

\* C5: a run that has ended has a non-zero status and has not written the
\* file if the token was absent, the key list empty or no issue fetched; it
\* has written the file and has status 0 if at least one issue was fetched.
C5_ExitStatus ==
    pc = "exited" =>
      /\ ( \/ JIRA_API_TOKEN = None \/ JIRA_API_TOKEN = ""
           \/ Len(ticket_keys) = 0
           \/ Len(issues) = 0 )
         => (exit_status # 0 /\ ~Wrote /\ file = file_before)
      /\ Len(issues) >= 1 => (exit_status = 0 /\ Wrote)

(***************************************************************************)
(* C6.                                                                     *)
(***************************************************************************)

\* C6: in the file, every key of tickets is the key member of its record,
\* and after a write every fetched record's key is a key of tickets.
C6_KeysMatchRecords ==
    /\ \A k \in DOMAIN file.tickets : file.tickets[k].key = k
    /\ Wrote => \A j \in DOMAIN issues : issues[j].key \in DOMAIN file.tickets

\* A written document with two tickets.
C6_Witness ==
    /\ Wrote
    /\ Cardinality(DOMAIN file.tickets) >= 2

(***************************************************************************)
(* C7.                                                                     *)
(***************************************************************************)

\* C7: for a 2xx response whose body holds an array of issues, the list
\* returned has one record per issue, in the order of the array, with key,
\* summary, issueType and status taken from that issue.
C7_RecordsFollowResponse ==
    ( /\ Posted
      /\ ~response.error
      /\ Is2xx(response.status_code)
      /\ response.body = "json_issues"
      /\ \A j \in DOMAIN response.issues : "key" \in DOMAIN response.issues[j] )
    => /\ Len(issues) = Len(response.issues)
       /\ \A j \in DOMAIN response.issues :
            /\ issues[j].key = response.issues[j].key
            /\ issues[j].summary = response.issues[j].fields.summary
            /\ issues[j].issueType = response.issues[j].fields.issuetype.name
            /\ issues[j].status = response.issues[j].fields.status.name

\* A 200 response with two different issues has been mapped.
C7_Witness ==
    /\ Posted
    /\ response.status_code = 200
    /\ Len(response.issues) = 2
    /\ Len(issues) = 2
    /\ issues[1].key # issues[2].key
    /\ issues[1].summary # issues[2].summary

(***************************************************************************)
(* C8.                                                                     *)
(***************************************************************************)

\* C8: isEpic of a record is true exactly when its issueType is "epic" in
\* some letter case.
C8_IsEpicIgnoresCase ==
    \A j \in DOMAIN issues : issues[j].isEpic <=> EpicIgnoringCase(issues[j].issueType)

\* An upper-case EPIC record that is an epic next to an "Epic Story" record
\* that is not.
C8_Witness ==
    /\ Len(issues) = 2
    /\ issues[1].issueType = EPIC /\ issues[1].isEpic
    /\ issues[2].issueType = EpicStory /\ ~issues[2].isEpic

(***************************************************************************)
(* C9.                                                                     *)
(***************************************************************************)

\* C9: once a run has written the file, its tickets are exactly the records
\* fetched in that run and its lastUpdated comes from that run; until a run
\* writes, and so in every run that fails, the file is as the run found it.
C9_FullOverwrite ==
    /\ Wrote =>
         /\ file.exists
         /\ DOMAIN file.tickets = IssueKeys
         /\ \A k \in DOMAIN file.tickets : \E j \in DOMAIN issues : file.tickets[k] = issues[j]
         /\ \/ file.lastUpdated = None
            \/ \E i \in DOMAIN time_responses : time_responses[i].datetime = file.lastUpdated
    /\ ~Wrote => file = file_before
    /\ (pc = "exited" /\ exit_status # 0) => file = file_before

\* A later run wrote a document that lacks a ticket the earlier file had.
C9_Witness ==
    /\ runs >= 2
    /\ Wrote
    /\ file_before.exists
    /\ \E k \in DOMAIN file_before.tickets : k \notin DOMAIN file.tickets

(***************************************************************************)
(* C10.                                                                    *)
(***************************************************************************)

\* C10: in a written document the entry of a key is the record of the last
\* issue of the response with that key, there are as many entries as
\* distinct keys in the response, and the count reported as saved is the
\* number of fetched records, which is at least the number of entries.
C10_LastDuplicateWins ==
    Wrote =>
      /\ \A j \in DOMAIN response.issues :
           (\A i \in DOMAIN response.issues :
               response.issues[i].key = response.issues[j].key => i <= j)
           => /\ file.tickets[response.issues[j].key].summary = response.issues[j].fields.summary
              /\ file.tickets[response.issues[j].key].issueType = response.issues[j].fields.issuetype.name
              /\ file.tickets[response.issues[j].key].status = response.issues[j].fields.status.name
      /\ Cardinality(DOMAIN file.tickets)
           = Cardinality({response.issues[j].key : j \in DOMAIN response.issues})
      /\ saved_count = Len(response.issues)
      /\ Cardinality(DOMAIN file.tickets) <= saved_count

\* Two issues with one key and different summaries: one entry, two reported.
C10_Witness ==
    /\ Wrote
    /\ Len(response.issues) = 2
    /\ response.issues[1].key = response.issues[2].key
    /\ response.issues[1].fields.summary # response.issues[2].fields.summary
    /\ Cardinality(DOMAIN file.tickets) = 1
    /\ saved_count = 2

====
